---- MODULE Spec2Model ----
(***************************************************************************)
(* Model of the MSSQL -> PostgreSQL migration run (migrate.js, logger.js). *)
(* One run of migrate(): connection setup, table discovery, phase 1        *)
(* (CREATE TABLE), phase 2 (ALTER TABLE ADD FOREIGN KEY), dependency sort, *)
(* phase 3 (paged data load + sequence reset), summary, cleanup, exit.     *)
(* Identifiers are sequences of one-character strings so that the          *)
(* `${schema}.${table}` key and its split('.') are computed, not assumed.  *)
(***************************************************************************)
EXTENDS Integers, Sequences, FiniteSets, TLC

\* ------------------------------------------------------------------ bounds
MaxTables == 2
MaxFKs == 2
MaxRows == 3
BATCH_SIZE == 2

\* ------------------------------------------------------- source catalogue
\* The tables the source database may hold, in the order of
\* ORDER BY TABLE_SCHEMA, TABLE_NAME.  One table name contains a '.'.
TableUniverse ==
  << [schema_name |-> <<"s">>, table_name |-> <<"a">>],
     [schema_name |-> <<"s">>, table_name |-> <<"a", ".", "b">>],
     [schema_name |-> <<"s">>, table_name |-> <<"b">>] >>

UniverseSet == {TableUniverse[n] : n \in 1..Len(TableUniverse)}

\* ------------------------------------------------------------- utilities
Range(s) == {s[n] : n \in 1..Len(s)}

\* positions of element e in sequence s
Positions(s, e) == {n \in 1..Len(s) : s[n] = e}

\* the subsequence of s at the (increasing) index set idx
RECURSIVE SubSeqAt(_, _, _)
SubSeqAt(s, idx, n) ==
  IF n > Len(s) THEN << >>
  ELSE IF n \in idx THEN << s[n] >> \o SubSeqAt(s, idx, n + 1)
  ELSE SubSeqAt(s, idx, n + 1)

\* every result getTables can return: a sorted, duplicate-free table list
TableLists ==
  {SubSeqAt(TableUniverse, idx, 1) :
     idx \in {x \in SUBSET (1..Len(TableUniverse)) : Cardinality(x) <= MaxTables}}

\* a foreign key descriptor (constraint name, columns and actions omitted)
ForeignKey(src, tgt) ==
  [tableSchema |-> src.schema_name, tableName |-> src.table_name,
   referencedSchema |-> tgt.schema_name, referencedTable |-> tgt.table_name]

FKUniverse == {ForeignKey(a, b) : a \in UniverseSet, b \in UniverseSet}

\* every result getAllForeignKeys can return (ordered by constraint name,
\* which is independent of the tables involved)
FKLists == UNION {[1..n -> FKUniverse] : n \in 0..MaxFKs}

\* The foreign keys the source database may hold, in the order of
\* ORDER BY fk.name: a plain reference, a reference from the dotted table,
\* the reference that closes a 2-cycle, and a self reference.
FKCatalogue ==
  << ForeignKey(TableUniverse[1], TableUniverse[3]),
     ForeignKey(TableUniverse[2], TableUniverse[3]),
     ForeignKey(TableUniverse[3], TableUniverse[1]),
     ForeignKey(TableUniverse[3], TableUniverse[3]) >>

\* every result getAllForeignKeys can return for a database holding tbls:
\* foreign keys exist only between tables of the database
FKListsFor(tbls) ==
  LET present == {n \in 1..Len(FKCatalogue) :
                    /\ \E t \in Range(tbls) :
                         /\ t.schema_name = FKCatalogue[n].tableSchema
                         /\ t.table_name = FKCatalogue[n].tableName
                    /\ \E t \in Range(tbls) :
                         /\ t.schema_name = FKCatalogue[n].referencedSchema
                         /\ t.table_name = FKCatalogue[n].referencedTable}
  IN {SubSeqAt(FKCatalogue, idx, 1) :
        idx \in {x \in SUBSET present : Cardinality(x) <= MaxFKs}}

\* getColumns: the columns of a table of the source database (table "a"
\* has an identity column, the others have none)
SourceColumns(schema, table) == [isIdentity |-> table = <<"a">>]

\* `${schema}.${table}`
TableKey(schema, table) == schema \o <<".">> \o table

\* String.prototype.split('.') : the parts between the dots
RECURSIVE SplitFrom(_, _, _)
SplitFrom(str, n, cur) ==
  IF n > Len(str) THEN << cur >>
  ELSE IF str[n] = "." THEN << cur >> \o SplitFrom(str, n + 1, << >>)
  ELSE SplitFrom(str, n + 1, Append(cur, str[n]))

SplitDot(str) == SplitFrom(str, 1, << >>)

\* --------------------------------------------- sortTablesByDependencies
\* dependencies: table key -> its referenced keys, in insertion order (a
\* JavaScript Set iterates in insertion order and ignores a repeated add)
RECURSIVE BuildDependencies(_, _, _, _)

\* faulty variant: a self reference is added to the graph as well
BuildDependenciesWithSelfEdges(deps, tableNames, fks, n) ==
  IF n > Len(fks) THEN deps
  ELSE LET fk == fks[n]
           source == TableKey(fk.tableSchema, fk.tableName)
           target == TableKey(fk.referencedSchema, fk.referencedTable)
       IN IF source \in tableNames /\ target \in tableNames
          THEN BuildDependencies(
                 [deps EXCEPT ![source] =
                    IF target \in Range(@) THEN @ ELSE Append(@, target)],
                 tableNames, fks, n + 1)
          ELSE BuildDependencies(deps, tableNames, fks, n + 1)

BuildDependencies(deps, tableNames, fks, n) ==
  IF n > Len(fks) THEN deps
  ELSE LET fk == fks[n]
           source == TableKey(fk.tableSchema, fk.tableName)
           target == TableKey(fk.referencedSchema, fk.referencedTable)
       IN IF source \in tableNames /\ target \in tableNames /\ source # target
          THEN BuildDependencies(
                 [deps EXCEPT ![source] =
                    IF target \in Range(@) THEN @ ELSE Append(@, target)],
                 tableNames, fks, n + 1)
          ELSE BuildDependencies(deps, tableNames, fks, n + 1)

TableNamesOf(tbls) ==
  {TableKey(tbls[n].schema_name, tbls[n].table_name) : n \in 1..Len(tbls)}

Dependencies(tbls, fks) ==
  BuildDependencies([name \in TableNamesOf(tbls) |-> << >>],
                    TableNamesOf(tbls), fks, 1)

\* visit(tableName): st = [sorted, visited, visiting, warnings]
RECURSIVE visit(_, _, _)
RECURSIVE VisitDeps(_, _, _, _)
visit(st, deps, tableName) ==
  IF tableName \in st.visited THEN st
  ELSE IF tableName \in st.visiting
  THEN [st EXCEPT !.warnings = @ + 1]
  ELSE LET st1 == [st EXCEPT !.visiting = @ \cup {tableName}]
           st2 == VisitDeps(st1, deps, deps[tableName], 1)
       IN [st2 EXCEPT !.visiting = @ \ {tableName},
                      !.visited = @ \cup {tableName},
                      !.sorted = Append(@, tableName)]

VisitDeps(st, deps, ds, n) ==
  IF n > Len(ds) THEN st
  ELSE VisitDeps(visit(st, deps, ds[n]), deps, ds, n + 1)

\* for (const table of tables) visit(`${schema}.${table}`)
RECURSIVE VisitRoots(_, _, _, _)
VisitRoots(st, deps, tbls, n) ==
  IF n > Len(tbls) THEN st
  ELSE VisitRoots(
         visit(st, deps, TableKey(tbls[n].schema_name, tbls[n].table_name)),
         deps, tbls, n + 1)

TopologicalSort(tbls, fks) ==
  VisitRoots([sorted |-> << >>, visited |-> {}, visiting |-> {}, warnings |-> 0],
             Dependencies(tbls, fks), tbls, 1)

\* const [schema, table] = name.split('.')
MapBack(name) ==
  LET parts == SplitDot(name)
  IN [schema_name |-> parts[1], table_name |-> parts[2]]

\* the value returned (table objects) and the warnings counted on the way
sortTablesByDependencies(tbls, fks) ==
  LET st == TopologicalSort(tbls, fks)
  IN [tables |-> [n \in 1..Len(st.sorted) |-> MapBack(st.sorted[n])],
      warnings |-> st.warnings]

\* ------------------------------------------------------ type-mapper.js
\* A JavaScript string is the sequence of its characters; a value that may be
\* null is << >> (null) or << v >>.
Null == << >>
Some(v) == << v >>

UpperCaseLetters == << "A", "B", "C", "D", "E", "F", "G", "H", "I", "J", "K", "L", "M", "N", "O", "P", "Q", "R", "S", "T", "U", "V", "W", "X", "Y", "Z" >>
LowerCaseLetters == << "a", "b", "c", "d", "e", "f", "g", "h", "i", "j", "k", "l", "m", "n", "o", "p", "q", "r", "s", "t", "u", "v", "w", "x", "y", "z" >>

\* String.prototype.toLowerCase, character by character
ToLowerChar(c) ==
  IF \E n \in 1..Len(UpperCaseLetters) : UpperCaseLetters[n] = c
  THEN LowerCaseLetters[CHOOSE n \in 1..Len(UpperCaseLetters) :
                          UpperCaseLetters[n] = c]
  ELSE c

toLowerCase(str) == [n \in 1..Len(str) |-> ToLowerChar(str[n])]

\* String.prototype.startsWith
startsWith(str, prefix) ==
  Len(str) >= Len(prefix) /\ SubSeq(str, 1, Len(prefix)) = prefix

\* identifier.replace(/"/g, '""')
RECURSIVE DoubleQuotes(_)
DoubleQuotes(str) ==
  IF str = << >> THEN << >>
  ELSE (IF Head(str) = "\"" THEN << "\"", "\"" >> ELSE << Head(str) >>)
         \o DoubleQuotes(Tail(str))

\* faulty variant: the embedded quotes are kept single
escapeIdentifierWithoutDoubling(identifier) ==
  << "\"" >> \o identifier \o << "\"" >>

escapeIdentifier(identifier) == << "\"" >> \o DoubleQuotes(identifier) \o << "\"" >>

\* the two alternatives of /^\(+|\)+$/g : the leading run of one character
\* and the trailing run of another
RECURSIVE DropLeading(_, _)
DropLeading(str, c) ==
  IF str # << >> /\ Head(str) = c THEN DropLeading(Tail(str), c) ELSE str

RECURSIVE DropTrailing(_, _)
DropTrailing(str, c) ==
  IF str # << >> /\ str[Len(str)] = c
  THEN DropTrailing(SubSeq(str, 1, Len(str) - 1), c)
  ELSE str

\* defaultValue.replace(/^\(+|\)+$/g, '')
StripOuterParentheses(str) == DropTrailing(DropLeading(str, "("), ")")

\* the keys of functionMappings, and the object itself
FunctionKeys ==
  << << "g", "e", "t", "d", "a", "t", "e", "(", ")" >>,
     << "g", "e", "t", "u", "t", "c", "d", "a", "t", "e", "(", ")" >>,
     << "s", "y", "s", "d", "a", "t", "e", "t", "i", "m", "e", "(", ")" >>,
     << "s", "y", "s", "u", "t", "c", "d", "a", "t", "e", "t", "i", "m", "e", "(", ")" >>,
     << "s", "y", "s", "d", "a", "t", "e", "t", "i", "m", "e", "o", "f", "f", "s", "e", "t", "(", ")" >>,
     << "n", "e", "w", "i", "d", "(", ")" >>,
     << "n", "e", "w", "s", "e", "q", "u", "e", "n", "t", "i", "a", "l", "i", "d", "(", ")" >>,
     << "u", "s", "e", "r", "_", "n", "a", "m", "e", "(", ")" >>,
     << "s", "u", "s", "e", "r", "_", "s", "n", "a", "m", "e", "(", ")" >>,
     << "h", "o", "s", "t", "_", "n", "a", "m", "e", "(", ")" >> >>

FunctionValues ==
  << << "C", "U", "R", "R", "E", "N", "T", "_", "T", "I", "M", "E", "S", "T", "A", "M", "P" >>,
     << "C", "U", "R", "R", "E", "N", "T", "_", "T", "I", "M", "E", "S", "T", "A", "M", "P", " ", "A", "T", " ", "T", "I", "M", "E", " ", "Z", "O", "N", "E", " ", "'", "U", "T", "C", "'" >>,
     << "C", "U", "R", "R", "E", "N", "T", "_", "T", "I", "M", "E", "S", "T", "A", "M", "P" >>,
     << "C", "U", "R", "R", "E", "N", "T", "_", "T", "I", "M", "E", "S", "T", "A", "M", "P", " ", "A", "T", " ", "T", "I", "M", "E", " ", "Z", "O", "N", "E", " ", "'", "U", "T", "C", "'" >>,
     << "C", "U", "R", "R", "E", "N", "T", "_", "T", "I", "M", "E", "S", "T", "A", "M", "P" >>,
     << "g", "e", "n", "_", "r", "a", "n", "d", "o", "m", "_", "u", "u", "i", "d", "(", ")" >>,
     << "g", "e", "n", "_", "r", "a", "n", "d", "o", "m", "_", "u", "u", "i", "d", "(", ")" >>,
     << "C", "U", "R", "R", "E", "N", "T", "_", "U", "S", "E", "R" >>,
     << "C", "U", "R", "R", "E", "N", "T", "_", "U", "S", "E", "R" >>,
     << "i", "n", "e", "t", "_", "c", "l", "i", "e", "n", "t", "_", "a", "d", "d", "r", "(", ")" >> >>

\* the lower-case names that every JavaScript object inherits from
\* Object.prototype: a lookup of one of them is truthy and is no string
InheritedNames == { << "c", "o", "n", "s", "t", "r", "u", "c", "t", "o", "r" >>, << "_", "_", "p", "r", "o", "t", "o", "_", "_" >> }
Inherited(name) == << "Object.prototype" >> \o name

\* functionMappings[lowerValue]: Null stands for undefined
functionMappings(lowerValue) ==
  IF \E n \in 1..Len(FunctionKeys) : FunctionKeys[n] = lowerValue
  THEN Some(FunctionValues[CHOOSE n \in 1..Len(FunctionKeys) :
                             FunctionKeys[n] = lowerValue])
  ELSE IF lowerValue \in InheritedNames THEN Some(Inherited(lowerValue))
  ELSE Null

Digits == { "0", "1", "2", "3", "4", "5", "6", "7", "8", "9" }

\* /^\d+$/
AllDigits(str) == str # << >> /\ \A n \in 1..Len(str) : str[n] \in Digits

\* /^-?\d+(\.\d+)?$/
IsNumericLiteral(str) ==
  LET unsigned == IF str # << >> /\ Head(str) = "-" THEN Tail(str) ELSE str
  IN \/ AllDigits(unsigned)
     \/ \E dot \in 1..Len(unsigned) :
          /\ unsigned[dot] = "."
          /\ AllDigits(SubSeq(unsigned, 1, dot - 1))
          /\ AllDigits(SubSeq(unsigned, dot + 1, Len(unsigned)))

\* convertDefaultValue(defaultValue, dataType): defaultValue is Null or
\* Some(string); the result is Null or Some(string)
convertDefaultValue(defaultValue, dataType) ==
  IF defaultValue = Null \/ defaultValue = Some(<< >>) THEN Null
  ELSE LET value == StripOuterParentheses(defaultValue[1])
           lowerValue == toLowerCase(value)
       IN IF functionMappings(lowerValue) # Null
          THEN functionMappings(lowerValue)
          ELSE IF startsWith(value, << "N", "'" >>) \/ startsWith(value, << "'" >>)
          THEN Some(IF startsWith(value, << "N", "'" >>) THEN Tail(value) ELSE value)
          ELSE IF IsNumericLiteral(value) THEN Some(value)
          ELSE IF /\ toLowerCase(dataType) \in { << "b", "o", "o", "l", "e", "a", "n" >>, << "b", "i", "t" >> }
                  /\ (value = << "1" >> \/ lowerValue = << "t", "r", "u", "e" >>)
          THEN Some(<< "T", "R", "U", "E" >>)
          ELSE IF /\ toLowerCase(dataType) \in { << "b", "o", "o", "l", "e", "a", "n" >>, << "b", "i", "t" >> }
                  /\ (value = << "0" >> \/ lowerValue = << "f", "a", "l", "s", "e" >>)
          THEN Some(<< "F", "A", "L", "S", "E" >>)
          ELSE Some(value)


\* TYPE_MAPPINGS: its keys and, position by position, its values
TypeKeys ==
  << << "b", "i", "g", "i", "n", "t" >>,
     << "i", "n", "t" >>,
     << "s", "m", "a", "l", "l", "i", "n", "t" >>,
     << "t", "i", "n", "y", "i", "n", "t" >>,
     << "b", "i", "t" >>,
     << "d", "e", "c", "i", "m", "a", "l" >>,
     << "n", "u", "m", "e", "r", "i", "c" >>,
     << "m", "o", "n", "e", "y" >>,
     << "s", "m", "a", "l", "l", "m", "o", "n", "e", "y" >>,
     << "f", "l", "o", "a", "t" >>,
     << "r", "e", "a", "l" >>,
     << "d", "a", "t", "e" >>,
     << "d", "a", "t", "e", "t", "i", "m", "e" >>,
     << "d", "a", "t", "e", "t", "i", "m", "e", "2" >>,
     << "d", "a", "t", "e", "t", "i", "m", "e", "o", "f", "f", "s", "e", "t" >>,
     << "s", "m", "a", "l", "l", "d", "a", "t", "e", "t", "i", "m", "e" >>,
     << "t", "i", "m", "e" >>,
     << "c", "h", "a", "r" >>,
     << "v", "a", "r", "c", "h", "a", "r" >>,
     << "t", "e", "x", "t" >>,
     << "n", "c", "h", "a", "r" >>,
     << "n", "v", "a", "r", "c", "h", "a", "r" >>,
     << "n", "t", "e", "x", "t" >>,
     << "b", "i", "n", "a", "r", "y" >>,
     << "v", "a", "r", "b", "i", "n", "a", "r", "y" >>,
     << "i", "m", "a", "g", "e" >>,
     << "u", "n", "i", "q", "u", "e", "i", "d", "e", "n", "t", "i", "f", "i", "e", "r" >>,
     << "x", "m", "l" >>,
     << "s", "q", "l", "_", "v", "a", "r", "i", "a", "n", "t" >>,
     << "h", "i", "e", "r", "a", "r", "c", "h", "y", "i", "d" >>,
     << "g", "e", "o", "m", "e", "t", "r", "y" >>,
     << "g", "e", "o", "g", "r", "a", "p", "h", "y" >>,
     << "r", "o", "w", "v", "e", "r", "s", "i", "o", "n" >>,
     << "t", "i", "m", "e", "s", "t", "a", "m", "p" >>,
     << "s", "y", "s", "n", "a", "m", "e" >> >>

TypeValues ==
  << << "B", "I", "G", "I", "N", "T" >>,
     << "I", "N", "T", "E", "G", "E", "R" >>,
     << "S", "M", "A", "L", "L", "I", "N", "T" >>,
     << "S", "M", "A", "L", "L", "I", "N", "T" >>,
     << "B", "O", "O", "L", "E", "A", "N" >>,
     << "D", "E", "C", "I", "M", "A", "L" >>,
     << "N", "U", "M", "E", "R", "I", "C" >>,
     << "D", "E", "C", "I", "M", "A", "L", "(", "1", "9", ",", "4", ")" >>,
     << "D", "E", "C", "I", "M", "A", "L", "(", "1", "0", ",", "4", ")" >>,
     << "D", "O", "U", "B", "L", "E", " ", "P", "R", "E", "C", "I", "S", "I", "O", "N" >>,
     << "R", "E", "A", "L" >>,
     << "D", "A", "T", "E" >>,
     << "T", "I", "M", "E", "S", "T", "A", "M", "P" >>,
     << "T", "I", "M", "E", "S", "T", "A", "M", "P" >>,
     << "T", "I", "M", "E", "S", "T", "A", "M", "P", " ", "W", "I", "T", "H", " ", "T", "I", "M", "E", " ", "Z", "O", "N", "E" >>,
     << "T", "I", "M", "E", "S", "T", "A", "M", "P" >>,
     << "T", "I", "M", "E" >>,
     << "C", "H", "A", "R" >>,
     << "V", "A", "R", "C", "H", "A", "R" >>,
     << "T", "E", "X", "T" >>,
     << "C", "H", "A", "R" >>,
     << "V", "A", "R", "C", "H", "A", "R" >>,
     << "T", "E", "X", "T" >>,
     << "B", "Y", "T", "E", "A" >>,
     << "B", "Y", "T", "E", "A" >>,
     << "B", "Y", "T", "E", "A" >>,
     << "U", "U", "I", "D" >>,
     << "X", "M", "L" >>,
     << "T", "E", "X", "T" >>,
     << "T", "E", "X", "T" >>,
     << "T", "E", "X", "T" >>,
     << "T", "E", "X", "T" >>,
     << "B", "Y", "T", "E", "A" >>,
     << "B", "Y", "T", "E", "A" >>,
     << "V", "A", "R", "C", "H", "A", "R", "(", "1", "2", "8", ")" >> >>

\* TYPE_MAPPINGS[typeLower]: Null stands for undefined
TYPE_MAPPINGS(typeLower) ==
  IF \E n \in 1..Len(TypeKeys) : TypeKeys[n] = typeLower
  THEN Some(TypeValues[CHOOSE n \in 1..Len(TypeKeys) : TypeKeys[n] = typeLower])
  ELSE IF typeLower \in InheritedNames THEN Some(Inherited(typeLower))
  ELSE Null

\* String.prototype.trim (of spaces)
trim(str) == DropTrailing(DropLeading(str, " "), " ")

\* `${n}` of an integer: its decimal digits
DigitChars == << "0", "1", "2", "3", "4", "5", "6", "7", "8", "9" >>
RECURSIVE NatToString(_)
NatToString(n) ==
  IF n < 10 THEN << DigitChars[n + 1] >>
  ELSE NatToString(n \div 10) \o << DigitChars[(n % 10) + 1] >>

NumberToString(n) == IF n < 0 THEN << "-" >> \o NatToString(0 - n) ELSE NatToString(n)

\* a number that may be null is truthy when it is a number other than 0
Truthy(x) == x # Null /\ x[1] # 0

\* faulty variant: a scale of 7 is carried too
ScaleInRangeUpTo7(scale) == scale # Null /\ scale[1] >= 0 /\ scale[1] <= 7

\* `if (scale !== null && scale >= 0 && scale <= 6)`
ScaleInRange(scale) == scale # Null /\ scale[1] >= 0 /\ scale[1] <= 6

\* mapDataType(mssqlType, maxLength, precision, scale): the numbers are Null
\* or Some(n); the result is the target type as a string (or, for a name
\* inherited from Object.prototype, the inherited object)
mapDataType(mssqlType, maxLength, precision, scale) ==
  LET typeLower == trim(toLowerCase(mssqlType))
      is(name) == typeLower = name
  IN IF (is(<< "v", "a", "r", "c", "h", "a", "r" >>) \/ is(<< "n", "v", "a", "r", "c", "h", "a", "r" >>)) /\ maxLength = Some(-1)
     THEN << "T", "E", "X", "T" >>
     ELSE IF is(<< "v", "a", "r", "b", "i", "n", "a", "r", "y" >>) /\ maxLength = Some(-1)
     THEN << "B", "Y", "T", "E", "A" >>
     ELSE IF is(<< "d", "e", "c", "i", "m", "a", "l" >>) \/ is(<< "n", "u", "m", "e", "r", "i", "c" >>)
     THEN IF precision # Null /\ scale # Null
          THEN << "N", "U", "M", "E", "R", "I", "C", "(" >> \o NumberToString(precision[1]) \o << "," >>
                 \o NumberToString(scale[1]) \o << ")" >>
          ELSE IF precision # Null
          THEN << "N", "U", "M", "E", "R", "I", "C", "(" >> \o NumberToString(precision[1]) \o << ")" >>
          ELSE << "N", "U", "M", "E", "R", "I", "C" >>
     ELSE IF is(<< "c", "h", "a", "r" >>) \/ is(<< "n", "c", "h", "a", "r" >>)
     THEN IF Truthy(maxLength) /\ maxLength[1] > 0
          THEN << "C", "H", "A", "R", "(" >>
                 \o NumberToString(IF is(<< "n", "c", "h", "a", "r" >>) THEN maxLength[1] \div 2
                             ELSE maxLength[1])
                 \o << ")" >>
          ELSE << "C", "H", "A", "R", "(", "1", ")" >>
     ELSE IF is(<< "v", "a", "r", "c", "h", "a", "r" >>) \/ is(<< "n", "v", "a", "r", "c", "h", "a", "r" >>)
     THEN IF Truthy(maxLength) /\ maxLength[1] > 0
          THEN << "V", "A", "R", "C", "H", "A", "R", "(" >>
                 \o NumberToString(IF is(<< "n", "v", "a", "r", "c", "h", "a", "r" >>) THEN maxLength[1] \div 2
                             ELSE maxLength[1])
                 \o << ")" >>
          ELSE << "V", "A", "R", "C", "H", "A", "R" >>
     ELSE IF is(<< "b", "i", "n", "a", "r", "y" >>) \/ is(<< "v", "a", "r", "b", "i", "n", "a", "r", "y" >>)
     THEN << "B", "Y", "T", "E", "A" >>
     ELSE IF is(<< "f", "l", "o", "a", "t" >>)
     THEN IF precision # Null /\ precision[1] <= 24
          THEN << "R", "E", "A", "L" >>
          ELSE << "D", "O", "U", "B", "L", "E", " ", "P", "R", "E", "C", "I", "S", "I", "O", "N" >>
     ELSE IF is(<< "d", "a", "t", "e", "t", "i", "m", "e", "2" >>)
     THEN IF ScaleInRange(scale)
          THEN << "T", "I", "M", "E", "S", "T", "A", "M", "P", "(" >> \o NumberToString(scale[1]) \o << ")" >>
          ELSE << "T", "I", "M", "E", "S", "T", "A", "M", "P" >>
     ELSE IF is(<< "t", "i", "m", "e" >>)
     THEN IF ScaleInRange(scale)
          THEN << "T", "I", "M", "E", "(" >> \o NumberToString(scale[1]) \o << ")" >>
          ELSE << "T", "I", "M", "E" >>
     ELSE IF is(<< "d", "a", "t", "e", "t", "i", "m", "e", "o", "f", "f", "s", "e", "t" >>)
     THEN IF ScaleInRange(scale)
          THEN << "T", "I", "M", "E", "S", "T", "A", "M", "P", "(" >> \o NumberToString(scale[1]) \o << ")", " ", "W", "I", "T", "H", " ", "T", "I", "M", "E", " ", "Z", "O", "N", "E" >>
          ELSE << "T", "I", "M", "E", "S", "T", "A", "M", "P", " ", "W", "I", "T", "H", " ", "T", "I", "M", "E", " ", "Z", "O", "N", "E" >>
     ELSE IF TYPE_MAPPINGS(typeLower) # Null
     THEN TYPE_MAPPINGS(typeLower)[1]
     ELSE << "T", "E", "X", "T" >>

\* ------------------------------------------- migrate.js: statement text
\* `${schemaName}_${tableName}`
fullTableName(schemaName, tableName) == schemaName \o << "_" >> \o tableName

\* the name under which createTable, createForeignKeys and migrateTableData
\* address the target table of a source table
pgTableName(schemaName, tableName) ==
  escapeIdentifier(fullTableName(schemaName, tableName))

\* faulty variant: every identity column becomes SERIAL
serialTypeAlwaysSerial(pgType) == << "S", "E", "R", "I", "A", "L" >>

\* createTable: the type of an identity column whose mapped type is pgType
serialType(pgType) ==
  IF pgType = << "B", "I", "G", "I", "N", "T" >> THEN << "B", "I", "G", "S", "E", "R", "I", "A", "L" >>
  ELSE IF pgType = << "S", "M", "A", "L", "L", "I", "N", "T" >> THEN << "S", "M", "A", "L", "L", "S", "E", "R", "I", "A", "L" >>
  ELSE << "S", "E", "R", "I", "A", "L" >>

\* createTable: the definition of one column.  col.defaultValue is Null or
\* Some(string); a JavaScript string is truthy when it is not empty.
columnDefinition(col) ==
  LET pgType == mapDataType(col.dataType, col.maxLength, col.precision, col.scale)
      finalType == IF col.isIdentity THEN serialType(pgType) ELSE pgType
      pgDefault ==
        IF col.defaultValue # Null /\ col.defaultValue # Some(<< >>)
           /\ ~col.isIdentity
        THEN convertDefaultValue(col.defaultValue, pgType)
        ELSE Null
      defaultClause ==
        IF pgDefault # Null /\ pgDefault # Some(<< >>)
        THEN << " ", "D", "E", "F", "A", "U", "L", "T", " " >> \o pgDefault[1]
        ELSE << >>
      nullClause ==
        IF ~col.isNullable /\ ~col.isIdentity THEN << " ", "N", "O", "T", " ", "N", "U", "L", "L" >> ELSE << >>
  IN [pgType |-> pgType, finalType |-> finalType, nullClause |-> nullClause,
      defaultClause |-> defaultClause,
      colDef |-> escapeIdentifier(col.name) \o << " " >> \o finalType
                   \o nullClause \o defaultClause]

\* SELECT COALESCE(MAX(col), 0) over the values of the column in the target
maxQuery(values) ==
  IF values = {} THEN 0 ELSE CHOOSE m \in values : \A v \in values : v <= m

GREATEST(a, b) == IF a >= b THEN a ELSE b

\* PostgreSQL setval(sequence, value, is_called) and the nextval after it
setval(value, isCalled) == [last_value |-> value, is_called |-> isCalled]
nextval(seq) == IF seq.is_called THEN seq.last_value + 1 ELSE seq.last_value

\* faulty variant: the sequence is always marked as called
resetQueryAlwaysCalled(maxVal) == setval(GREATEST(maxVal, 1), TRUE)

\* SELECT setval(..., GREATEST(${maxVal}, 1), ${maxVal > 0})
resetQuery(maxVal) == setval(GREATEST(maxVal, 1), maxVal > 0)

\* --------------------------------------------------------------- state
VARIABLES
  pc,             \* position in migrate()
  mssqlPool,      \* "none" (undefined) | "open" | "closed"
  adminClient,    \* the admin Client of initializeConnections
  pgPool,
  tables,         \* result of getTables
  tableMetadata,  \* Map: table key -> metadata
  i,              \* phase 1 loop position
  foreignKeys,    \* result of getAllForeignKeys
  j,              \* createForeignKeys loop position
  sortRan,        \* sortTablesByDependencies has returned
  sortedTables,
  k,              \* phase 3 loop position
  stats,
  createLog,      \* tables for which CREATE TABLE was executed, in order
  alterLog,       \* foreign keys for which ALTER TABLE was executed, in order
  fkFailed,       \* ALTER TABLE statements that failed
  loadLog,        \* tables for which migrateTableData was called, in order
  loadFailures,   \* migrateTableData calls that returned false
  resetLog,       \* tables for which resetSequences was called, in order
  loadResult,     \* "none" | "running" | "ok" | "failed": current migrateTableData
  columns,        \* metadata.columns handed to the current load
  totalRows, offset, totalMigrated,
  pages,          \* the pages fetched by the current load (sets of row numbers)
  rows,           \* rows of the current page not yet inserted
  pending,        \* rows inserted in the open transaction
  committed,      \* rows the current load has committed on the target
  caught,         \* migrate()'s catch block ran
  thrownFrom,     \* where the exception that reached the catch block was thrown
  summaries,      \* calls of logger.writeSummary
  exitCode,       \* -1 while running
  call,           \* a call of a function of type-mapper.js or of a helper,
                  \* taken on its own: [fn |-> name, ...arguments]
  ret             \* what that call returned (<< >> before it returns)

connVars == << mssqlPool, adminClient, pgPool >>
inputVars == << tables, tableMetadata, foreignKeys, sortRan, sortedTables >>
loopVars == << i, j, k >>
logVars == << createLog, alterLog, fkFailed, loadLog, loadFailures, resetLog >>
loadVars == << loadResult, columns, totalRows, offset, totalMigrated, pages,
               rows, pending, committed >>
callVars == << call, ret >>
endVars == << caught, thrownFrom, summaries, exitCode, callVars >>
vars == << pc, connVars, inputVars, loopVars, stats, logVars, loadVars, endVars >>

Init ==
  /\ pc = "connectMssql"
  /\ mssqlPool = "none" /\ adminClient = "none" /\ pgPool = "none"
  /\ tables = << >> /\ tableMetadata = << >> /\ foreignKeys = << >>
  /\ sortRan = FALSE /\ sortedTables = << >>
  /\ i = 1 /\ j = 1 /\ k = 1
  /\ stats = [tablesProcessed |-> 0, tablesCreated |-> 0,
              foreignKeysCreated |-> 0, totalRowsMigrated |-> 0,
              errors |-> 0, warnings |-> 0]
  /\ createLog = << >> /\ alterLog = << >> /\ fkFailed = 0
  /\ loadLog = << >> /\ loadFailures = 0 /\ resetLog = << >>
  /\ loadResult = "none" /\ columns = [isIdentity |-> FALSE]
  /\ totalRows = 0 /\ offset = 0 /\ totalMigrated = 0
  /\ pages = << >> /\ rows = {} /\ pending = {} /\ committed = {}
  /\ caught = FALSE /\ thrownFrom = "none" /\ summaries = 0 /\ exitCode = -1
  /\ call = [fn |-> "none"] /\ ret = << >>

\* ------------------------------------------------ initializeConnections
\* an exception that reaches migrate()'s catch block
ThrowToCatch == pc' = "catch" /\ thrownFrom' = pc

ConnectMssql ==
  /\ pc = "connectMssql"
  /\ \/ /\ mssqlPool' = "open"
        /\ pc' = "connectAdmin"
        /\ UNCHANGED thrownFrom
     \/ /\ ThrowToCatch
        /\ UNCHANGED mssqlPool
  /\ UNCHANGED << adminClient, pgPool, inputVars, loopVars, stats, logVars,
                  loadVars, caught, summaries, exitCode, callVars >>

ConnectAdmin ==
  /\ pc = "connectAdmin"
  /\ \/ /\ adminClient' = "open"
        /\ pc' = "adminQuery"
        /\ UNCHANGED thrownFrom
     \/ /\ ThrowToCatch
        /\ UNCHANGED adminClient
  /\ UNCHANGED << mssqlPool, pgPool, inputVars, loopVars, stats, logVars,
                  loadVars, caught, summaries, exitCode, callVars >>

\* SELECT 1 FROM pg_database ... and, when absent, CREATE DATABASE
AdminQuery ==
  /\ pc = "adminQuery"
  /\ \/ pc' = "adminEnd" /\ UNCHANGED thrownFrom
     \/ ThrowToCatch
  /\ UNCHANGED << connVars, inputVars, loopVars, stats, logVars, loadVars,
                  caught, summaries, exitCode, callVars >>

AdminEnd ==
  /\ pc = "adminEnd"
  /\ adminClient' = "closed"
  /\ pc' = "connectPg"
  /\ UNCHANGED << mssqlPool, pgPool, inputVars, loopVars, stats, logVars,
                  loadVars, endVars >>

\* pgPool = new Pool(pgConfig); await pgPool.query('SELECT 1')
ConnectPg ==
  /\ pc = "connectPg"
  /\ pgPool' = "open"
  /\ \/ pc' = "getTables" /\ UNCHANGED thrownFrom
     \/ ThrowToCatch
  /\ UNCHANGED << mssqlPool, adminClient, inputVars, loopVars, stats, logVars,
                  loadVars, caught, summaries, exitCode, callVars >>

\* ------------------------------------------------------------- phase 1
GetTables ==
  /\ pc = "getTables"
  /\ \/ \E tl \in TableLists :
          /\ tables' = tl
          /\ stats' = [stats EXCEPT !.tablesProcessed = Len(tl)]
          /\ pc' = IF Len(tl) = 0 THEN "getAllForeignKeys" ELSE "introspect"
          /\ UNCHANGED thrownFrom
     \/ /\ ThrowToCatch
        /\ UNCHANGED << tables, stats >>
  /\ UNCHANGED << connVars, tableMetadata, foreignKeys, sortRan, sortedTables,
                  loopVars, logVars, loadVars, caught, summaries, exitCode, callVars >>

\* Map.prototype.set
MapSet(m, key, value) ==
  [x \in DOMAIN m \cup {key} |-> IF x = key THEN value ELSE m[x]]

\* getColumns, getPrimaryKey, getUniqueConstraints, tableMetadata.set
Introspect ==
  /\ pc = "introspect"
  /\ \/ /\ tableMetadata' =
             MapSet(tableMetadata,
                    TableKey(tables[i].schema_name, tables[i].table_name),
                    SourceColumns(tables[i].schema_name, tables[i].table_name))
        /\ pc' = "createTable"
        /\ UNCHANGED thrownFrom
     \/ /\ ThrowToCatch
        /\ UNCHANGED tableMetadata
  /\ UNCHANGED << connVars, tables, foreignKeys, sortRan, sortedTables,
                  loopVars, stats, logVars, loadVars, caught, summaries, exitCode, callVars >>

\* faulty variant: the phase 1 loop stops one table early
AfterTableEarly(n) ==
  IF n + 1 >= Len(tables) THEN "getAllForeignKeys" ELSE "introspect"

\* the phase 1 loop: the position after table n
AfterTable(n) == IF n + 1 > Len(tables) THEN "getAllForeignKeys" ELSE "introspect"

\* faulty variant: a failed CREATE TABLE is re-thrown instead of counted
createTableThrows ==
  /\ pc = "createTable"
  /\ createLog' = Append(createLog, tables[i])
  /\ \/ /\ stats' = [stats EXCEPT !.tablesCreated = @ + 1]
        /\ i' = i + 1
        /\ pc' = AfterTable(i)
        /\ UNCHANGED thrownFrom
     \/ /\ ThrowToCatch
        /\ UNCHANGED << stats, i >>
  /\ UNCHANGED << connVars, inputVars, j, k, alterLog, fkFailed, loadLog,
                  loadFailures, resetLog, loadVars, caught, summaries,
                  exitCode, callVars >>

createTable ==
  /\ pc = "createTable"
  /\ createLog' = Append(createLog, tables[i])
  /\ \/ stats' = [stats EXCEPT !.tablesCreated = @ + 1]
     \/ stats' = [stats EXCEPT !.errors = @ + 1]
  /\ i' = i + 1
  /\ pc' = AfterTable(i)
  /\ UNCHANGED << connVars, inputVars, j, k, alterLog, fkFailed, loadLog,
                  loadFailures, resetLog, loadVars, endVars >>

\* ------------------------------------------------------------- phase 2
\* migrate(): what follows getAllForeignKeys / createForeignKeys
AfterForeignKey(fks, n) == IF n > Len(fks) THEN "sort" ELSE "createForeignKeys"

getAllForeignKeys ==
  /\ pc = "getAllForeignKeys"
  /\ \/ \E fl \in FKListsFor(tables) :
          /\ foreignKeys' = fl
          /\ pc' = AfterForeignKey(fl, 1)
          /\ UNCHANGED thrownFrom
     \/ /\ ThrowToCatch
        /\ UNCHANGED foreignKeys
  /\ UNCHANGED << connVars, tables, tableMetadata, sortRan, sortedTables,
                  loopVars, stats, logVars, loadVars, caught, summaries, exitCode, callVars >>

\* faulty variant: the loop of createForeignKeys ends at the first failure
createForeignKeysStopsAtFailure ==
  /\ pc = "createForeignKeys"
  /\ alterLog' = Append(alterLog, foreignKeys[j])
  /\ \/ /\ stats' = [stats EXCEPT !.foreignKeysCreated = @ + 1]
        /\ pc' = AfterForeignKey(foreignKeys, j + 1)
        /\ UNCHANGED fkFailed
     \/ /\ stats' = [stats EXCEPT !.errors = @ + 1]
        /\ fkFailed' = fkFailed + 1
        /\ pc' = "sort"
  /\ j' = j + 1
  /\ UNCHANGED << connVars, inputVars, i, k, createLog, loadLog, loadFailures,
                  resetLog, loadVars, endVars >>

\* one iteration of the loop of createForeignKeys
createForeignKeys ==
  /\ pc = "createForeignKeys"
  /\ alterLog' = Append(alterLog, foreignKeys[j])
  /\ \/ /\ stats' = [stats EXCEPT !.foreignKeysCreated = @ + 1]
        /\ UNCHANGED fkFailed
     \/ /\ stats' = [stats EXCEPT !.errors = @ + 1]
        /\ fkFailed' = fkFailed + 1
  /\ j' = j + 1
  /\ pc' = AfterForeignKey(foreignKeys, j + 1)
  /\ UNCHANGED << connVars, inputVars, i, k, createLog, loadLog, loadFailures,
                  resetLog, loadVars, endVars >>

\* ------------------------------------------------------------- phase 3
\* the phase 3 loop: the position for entry n of the sorted list
AtEntry(srt, n) == IF n > Len(srt) THEN "summary" ELSE "lookup"

\* faulty variant: phase 3 walks the list of getTables instead of the sorted one
EntryAtUnsorted(n) == tables[n]

\* for (const table of sortedTables): the table of iteration n
EntryAt(n) == sortedTables[n]

SortTables ==
  /\ pc = "sort"
  /\ LET r == sortTablesByDependencies(tables, foreignKeys)
     IN /\ sortedTables' = r.tables
        /\ stats' = [stats EXCEPT !.warnings = @ + r.warnings]
        /\ pc' = AtEntry(r.tables, 1)
  /\ sortRan' = TRUE
  /\ UNCHANGED << connVars, tables, tableMetadata, foreignKeys, loopVars,
                  logVars, loadVars, endVars >>

\* faulty variant: the iteration resynchronizes the sequences before it loads
LookupResetsFirst ==
  /\ pc = "lookup"
  /\ LET key == TableKey(EntryAt(k).schema_name, EntryAt(k).table_name)
     IN IF key \in DOMAIN tableMetadata
        THEN /\ columns' = tableMetadata[key]
             /\ loadLog' = Append(loadLog, EntryAt(k))
             /\ pc' = "resetSequences"
             /\ UNCHANGED << thrownFrom, loadResult >>
        ELSE /\ ThrowToCatch
             /\ UNCHANGED << columns, loadLog, loadResult >>
  /\ UNCHANGED << connVars, inputVars, loopVars, stats, createLog, alterLog,
                  fkFailed, loadFailures, resetLog, totalRows, offset,
                  totalMigrated, pages, rows, pending, committed, caught,
                  summaries, exitCode, callVars >>

\* tableMetadata.get(`${schema}.${table}`), then metadata.columns: a missing
\* entry is undefined and reading .columns of it throws a TypeError
Lookup ==
  /\ pc = "lookup"
  /\ LET key == TableKey(EntryAt(k).schema_name, EntryAt(k).table_name)
     IN IF key \in DOMAIN tableMetadata
        THEN /\ columns' = tableMetadata[key]
             /\ loadLog' = Append(loadLog, EntryAt(k))
             /\ loadResult' = "running"
             /\ pc' = "getRowCount"
             /\ UNCHANGED thrownFrom
        ELSE /\ ThrowToCatch
             /\ UNCHANGED << columns, loadLog, loadResult >>
  /\ UNCHANGED << connVars, inputVars, loopVars, stats, createLog, alterLog,
                  fkFailed, loadFailures, resetLog, totalRows, offset,
                  totalMigrated, pages, rows, pending, committed, caught, summaries, exitCode, callVars >>

\* ---------------------------------------------------- migrateTableData
\* the outer catch of migrateTableData: stats.errors++; return false
LoadFails ==
  /\ stats' = [stats EXCEPT !.errors = @ + 1]
  /\ loadFailures' = loadFailures + 1
  /\ loadResult' = "failed"
  /\ pc' = "resetSequences"

\* stats.totalRowsMigrated += totalMigrated; return true
LoadSucceeds(migrated) ==
  /\ stats' = [stats EXCEPT !.totalRowsMigrated = @ + migrated]
  /\ loadResult' = "ok"
  /\ pc' = "resetSequences"
  /\ UNCHANGED loadFailures

\* faulty variant: the page holds one row less than BATCH_SIZE
PageOneShort(off, n) == {r \in 1..n : off < r /\ r <= off + BATCH_SIZE - 1}

\* OFFSET off ROWS FETCH NEXT BATCH_SIZE ROWS ONLY, of a table of n rows
Page(off, n) == {r \in 1..n : off < r /\ r <= off + BATCH_SIZE}

getRowCount ==
  /\ pc = "getRowCount"
  /\ \/ \E n \in 0..MaxRows :
          /\ totalRows' = n
          /\ IF n = 0
             THEN /\ loadResult' = "ok"
                  /\ pc' = "resetSequences"
             ELSE /\ pc' = "fetch"
                  /\ UNCHANGED loadResult
          /\ UNCHANGED << stats, loadFailures >>
     \/ /\ LoadFails
        /\ UNCHANGED totalRows
  /\ UNCHANGED << connVars, inputVars, loopVars, createLog, alterLog, fkFailed,
                  loadLog, resetLog, columns, offset, totalMigrated, pages,
                  rows, pending, committed, endVars >>

\* the SELECT of one page; the source may have lost its rows since the count
Fetch ==
  /\ pc = "fetch"
  /\ \/ \E rs \in {Page(offset, totalRows), {}} :
          IF rs = {}
          THEN /\ LoadSucceeds(totalMigrated)
               /\ UNCHANGED << pages, rows >>
          ELSE /\ pages' = Append(pages, rs)
               /\ rows' = rs
               /\ pc' = "connect"
               /\ UNCHANGED << stats, loadFailures, loadResult >>
     \/ /\ LoadFails
        /\ UNCHANGED << pages, rows >>
  /\ UNCHANGED << connVars, inputVars, loopVars, createLog, alterLog, fkFailed,
                  loadLog, resetLog, columns, totalRows, offset, totalMigrated,
                  pending, committed, endVars >>

\* const client = await pgPool.connect()
Connect ==
  /\ pc = "connect"
  /\ \/ /\ pc' = "begin"
        /\ UNCHANGED << stats, loadFailures, loadResult >>
     \/ LoadFails
  /\ UNCHANGED << connVars, inputVars, loopVars, createLog, alterLog, fkFailed,
                  loadLog, resetLog, columns, totalRows, offset, totalMigrated,
                  pages, rows, pending, committed, endVars >>

Begin ==
  /\ pc = "begin"
  /\ \/ pc' = "insert"
     \/ pc' = "rollback"
  /\ UNCHANGED << connVars, inputVars, loopVars, stats, logVars, loadVars,
                  endVars >>

\* the next row of the page, in page order
NextRow == CHOOSE r \in rows : \A q \in rows : r <= q

Insert ==
  /\ pc = "insert"
  /\ \/ /\ pending' = pending \cup {NextRow}
        /\ rows' = rows \ {NextRow}
        /\ pc' = IF rows' = {} THEN "commit" ELSE "insert"
     \/ /\ pc' = "rollback"
        /\ UNCHANGED << pending, rows >>
  /\ UNCHANGED << connVars, inputVars, loopVars, stats, logVars, loadResult,
                  columns, totalRows, offset, totalMigrated, pages, committed,
                  endVars >>

\* COMMIT; totalMigrated += rows.length; offset += BATCH_SIZE; loop test
Commit ==
  /\ pc = "commit"
  /\ \/ /\ committed' = committed \cup pending
        /\ pending' = {}
        /\ totalMigrated' = totalMigrated + Cardinality(pages[Len(pages)])
        /\ offset' = offset + BATCH_SIZE
        /\ IF offset' < totalRows
           THEN /\ pc' = "fetch"
                /\ UNCHANGED << stats, loadFailures, loadResult >>
           ELSE LoadSucceeds(totalMigrated')
     \/ /\ pc' = "rollback"
        /\ UNCHANGED << committed, pending, totalMigrated, offset, stats,
                        loadFailures, loadResult >>
  /\ UNCHANGED << connVars, inputVars, loopVars, createLog, alterLog, fkFailed,
                  loadLog, resetLog, columns, totalRows, pages, rows, endVars >>

\* faulty variant: the failed page is committed instead of rolled back
RollbackCommits ==
  /\ pc = "rollback"
  /\ committed' = committed \cup pending
  /\ pending' = {}
  /\ LoadFails
  /\ UNCHANGED << connVars, inputVars, loopVars, createLog, alterLog, fkFailed,
                  loadLog, resetLog, columns, totalRows, offset, totalMigrated,
                  pages, rows, endVars >>

\* ROLLBACK; throw error; client.release(); then the outer catch
Rollback ==
  /\ pc = "rollback"
  /\ pending' = {}
  /\ LoadFails
  /\ UNCHANGED << connVars, inputVars, loopVars, createLog, alterLog, fkFailed,
                  loadLog, resetLog, columns, totalRows, offset, totalMigrated,
                  pages, rows, committed, endVars >>

\* ------------------------------------------------------- resetSequences
\* the loop body of phase 3 ends: the locals of the iteration (and this
\* model's view of what the iteration's load committed) go out of scope
EndOfIteration ==
  /\ loadResult' = "none" /\ columns' = [isIdentity |-> FALSE]
  /\ totalRows' = 0 /\ offset' = 0 /\ totalMigrated' = 0
  /\ pages' = << >> /\ rows' = {} /\ pending' = {} /\ committed' = {}

\* migrate() calls it after migrateTableData, whatever that returned
resetSequences ==
  /\ pc = "resetSequences"
  /\ resetLog' = Append(resetLog, EntryAt(k))
  /\ \/ /\ columns.isIdentity
        /\ UNCHANGED stats
     \/ /\ columns.isIdentity
        /\ stats' = [stats EXCEPT !.warnings = @ + 1]
     \/ /\ ~columns.isIdentity
        /\ UNCHANGED stats
  /\ EndOfIteration
  /\ k' = k + 1
  /\ pc' = AtEntry(sortedTables, k + 1)
  /\ UNCHANGED << connVars, inputVars, i, j, createLog, alterLog, fkFailed,
                  loadLog, loadFailures, endVars >>

\* --------------------------------------------- summary, catch, finally
WriteSummary ==
  /\ pc = "summary"
  /\ summaries' = summaries + 1
  /\ pc' = "finally"
  /\ UNCHANGED << connVars, inputVars, loopVars, stats, logVars, loadVars,
                  caught, thrownFrom, exitCode, callVars >>

\* faulty variant: the catch block re-throws without writing the summary
CatchWithoutSummary ==
  /\ pc = "catch"
  /\ stats' = [stats EXCEPT !.errors = @ + 1]
  /\ caught' = TRUE
  /\ pc' = "finally"
  /\ UNCHANGED << connVars, inputVars, loopVars, logVars, loadVars,
                  thrownFrom, summaries, exitCode, callVars >>

\* catch (error) { stats.errors++; logger.writeSummary(stats); throw error }
Catch ==
  /\ pc = "catch"
  /\ stats' = [stats EXCEPT !.errors = @ + 1]
  /\ summaries' = summaries + 1
  /\ caught' = TRUE
  /\ pc' = "finally"
  /\ UNCHANGED << connVars, inputVars, loopVars, logVars, loadVars,
                  thrownFrom, exitCode, callVars >>

\* Pool.close() / Pool.end() on a pool that was assigned
Close(conn) == IF conn = "none" THEN "none" ELSE "closed"

Finally ==
  /\ pc = "finally"
  /\ mssqlPool' = Close(mssqlPool)
  /\ pgPool' = Close(pgPool)
  /\ pc' = "exit"
  /\ UNCHANGED << adminClient, inputVars, loopVars, stats, logVars, loadVars,
                  endVars >>

\* migrate().then(() => process.exit(0)).catch(() => process.exit(1))
Exit ==
  /\ pc = "exit"
  /\ exitCode' = IF caught THEN 1 ELSE 0
  /\ pc' = "done"
  /\ UNCHANGED << connVars, inputVars, loopVars, stats, logVars, loadVars,
                  caught, thrownFrom, summaries, callVars >>

Next ==
  \/ ConnectMssql \/ ConnectAdmin \/ AdminQuery \/ AdminEnd \/ ConnectPg
  \/ GetTables \/ Introspect \/ createTable
  \/ getAllForeignKeys \/ createForeignKeys
  \/ SortTables \/ Lookup
  \/ getRowCount \/ Fetch \/ Connect \/ Begin \/ Insert \/ Commit \/ Rollback
  \/ resetSequences
  \/ WriteSummary \/ Catch \/ Finally \/ Exit

Spec == Init /\ [][Next]_vars

\* ------------------------------- phase 2 and the sort on their own inputs
\* The state in which getAllForeignKeys has returned after a phase 1 whose
\* every statement succeeded, for every table list and every foreign key list
\* of the universe (a foreign key may name a table that getTables did not
\* return).
InitSort ==
  /\ mssqlPool = "open" /\ adminClient = "closed" /\ pgPool = "open"
  /\ tables \in TableLists
  /\ foreignKeys \in FKLists
  /\ pc = AfterForeignKey(foreignKeys, 1)
  /\ tableMetadata =
       [key \in TableNamesOf(tables) |->
          LET t == CHOOSE t \in Range(tables) :
                     TableKey(t.schema_name, t.table_name) = key
          IN SourceColumns(t.schema_name, t.table_name)]
  /\ sortRan = FALSE /\ sortedTables = << >>
  /\ i = Len(tables) + 1 /\ j = 1 /\ k = 1
  /\ stats = [tablesProcessed |-> Len(tables), tablesCreated |-> Len(tables),
              foreignKeysCreated |-> 0, totalRowsMigrated |-> 0,
              errors |-> 0, warnings |-> 0]
  /\ createLog = tables /\ alterLog = << >> /\ fkFailed = 0
  /\ loadLog = << >> /\ loadFailures = 0 /\ resetLog = << >>
  /\ loadResult = "none" /\ columns = [isIdentity |-> FALSE]
  /\ totalRows = 0 /\ offset = 0 /\ totalMigrated = 0
  /\ pages = << >> /\ rows = {} /\ pending = {} /\ committed = {}
  /\ caught = FALSE /\ thrownFrom = "none" /\ summaries = 0 /\ exitCode = -1
  /\ call = [fn |-> "none"] /\ ret = << >>

NextSort == createForeignKeys \/ SortTables

SpecSort == InitSort /\ [][NextSort]_vars

\* ------------------------------------- the functions on their own inputs
\* Bounds of the inputs: layers of wrapping parentheses, identifier length,
\* source name length, largest key value.
MaxParens == 2
MaxIdentifierLen == 3
MaxNameLen == 2
MaxKey == 3

\* String.prototype.toUpperCase, character by character
ToUpperChar(c) ==
  IF \E n \in 1..Len(LowerCaseLetters) : LowerCaseLetters[n] = c
  THEN UpperCaseLetters[CHOOSE n \in 1..Len(LowerCaseLetters) :
                          LowerCaseLetters[n] = c]
  ELSE c

toUpperCase(str) == [n \in 1..Len(str) |-> ToUpperChar(str[n])]

\* str inside n layers of parentheses, as SQL Server stores a default
RECURSIVE Wrap(_, _)
Wrap(str, n) ==
  IF n = 0 THEN str ELSE << "(" >> \o Wrap(str, n - 1) \o << ")" >>

\* every string over the alphabet of length lo..hi
StringsOver(alphabet, lo, hi) == UNION {[1..n -> alphabet] : n \in lo..hi}

\* COLUMN_DEFAULT texts: function calls, boolean texts, literals
FunctionDefaultTexts ==
  {Wrap(t, n) :
     t \in {FunctionKeys[m] : m \in 1..Len(FunctionKeys)}
             \cup {toUpperCase(FunctionKeys[m]) : m \in 1..Len(FunctionKeys)}
             \cup {<< "G", "e", "t", "D", "a", "t", "e", "(", ")" >>},
     n \in 0..MaxParens}

BooleanDefaultTexts ==
  {Wrap(t, n) :
     t \in {<< "1" >>, << "0" >>, << "t", "r", "u", "e" >>, << "f", "a", "l", "s", "e" >>, << "T", "R", "U", "E" >>, << "F", "A", "L", "S", "E" >>, << "T", "r", "u", "e" >>, << "F", "a", "l", "s", "e" >>},
     n \in 0..MaxParens}

LiteralDefaultTexts ==
  {Wrap(t, n) : t \in {<< "'", "x", "'" >>, << "N", "'", "x", "'" >>, << "4", "2" >>, << "-", "1", ".", "5" >>, << "a", "b", "c" >>}, n \in 0..MaxParens}

DefaultTexts ==
  FunctionDefaultTexts \cup BooleanDefaultTexts \cup LiteralDefaultTexts

\* the dataType argument: createTable passes the mapped type
DefaultDataTypes == {<< "B", "O", "O", "L", "E", "A", "N" >>, << "b", "i", "t" >>, << "B", "i", "t" >>, << "I", "N", "T", "E", "G", "E", "R" >>, << "T", "I", "M", "E", "S", "T", "A", "M", "P" >>}

\* DATA_TYPE texts: every key of TYPE_MAPPINGS, other spellings of some, and
\* names the table does not hold
TypeNames ==
  {TypeKeys[m] : m \in 1..Len(TypeKeys)}
    \cup {<< "I", "N", "T" >>, << "N", "V", "a", "r", "C", "h", "a", "r" >>, << " ", "i", "n", "t", " " >>, << "V", "A", "R", "C", "H", "A", "R" >>, << "D", "e", "c", "i", "m", "a", "l" >>, << "N", "C", "H", "A", "R" >>}
    \cup {<< "f", "o", "o" >>, << "u", "d", "t" >>, << "c", "o", "n", "s", "t", "r", "u", "c", "t", "o", "r" >>}

\* CHARACTER_MAXIMUM_LENGTH, NUMERIC_PRECISION, NUMERIC_SCALE
LengthValues == {Null, Some(-1), Some(0), Some(1), Some(2), Some(3), Some(20)}
PrecisionValues == {Null, Some(10), Some(24), Some(25), Some(53)}
ScaleValues == {Null, Some(-1), Some(0), Some(2), Some(6), Some(7)}

Identifiers == StringsOver({"a", "\"", "_"}, 0, MaxIdentifierLen)

SourceNames == StringsOver({"a", "_"}, 1, MaxNameLen)

SourceTables == [schema_name : SourceNames, table_name : SourceNames]

\* the columns createTable may be given
ColumnTypes ==
  { [dataType |-> << "i", "n", "t" >>, maxLength |-> Null, precision |-> Some(10), scale |-> Some(0)],
    [dataType |-> << "b", "i", "g", "i", "n", "t" >>, maxLength |-> Null, precision |-> Some(19), scale |-> Some(0)],
    [dataType |-> << "s", "m", "a", "l", "l", "i", "n", "t" >>, maxLength |-> Null, precision |-> Some(5), scale |-> Some(0)],
    [dataType |-> << "t", "i", "n", "y", "i", "n", "t" >>, maxLength |-> Null, precision |-> Some(3), scale |-> Some(0)],
    [dataType |-> << "d", "e", "c", "i", "m", "a", "l" >>, maxLength |-> Null, precision |-> Some(18), scale |-> Some(0)],
    [dataType |-> << "b", "i", "t" >>, maxLength |-> Null, precision |-> Null, scale |-> Null],
    [dataType |-> << "n", "v", "a", "r", "c", "h", "a", "r" >>, maxLength |-> Some(20), precision |-> Null, scale |-> Null],
    [dataType |-> << "d", "a", "t", "e", "t", "i", "m", "e" >>, maxLength |-> Null, precision |-> Null, scale |-> Null] }

ColumnDefaults ==
  {Null, Some(<< "(", "(", "1", ")", ")" >>), Some(<< "(", "(", "0", ")", ")" >>), Some(<< "(", "g", "e", "t", "d", "a", "t", "e", "(", ")", ")" >>), Some(<< "(", "'", "x", "'", ")" >>),
   Some(<< "(", "N", "'", "x", "'", ")" >>)}

Columns ==
  {[name |-> << "I", "d" >>, dataType |-> t.dataType, maxLength |-> t.maxLength,
    precision |-> t.precision, scale |-> t.scale, isNullable |-> nullable,
    defaultValue |-> d, isIdentity |-> identity] :
     t \in ColumnTypes, nullable \in BOOLEAN, d \in ColumnDefaults,
     identity \in BOOLEAN}

\* the values an identity column may hold in the target
KeyValues == (0 - 1)..MaxKey

Calls ==
  [fn : {"convertDefaultValue"}, defaultValue : {Some(t) : t \in DefaultTexts},
   dataType : DefaultDataTypes]
  \cup [fn : {"mapDataType"}, mssqlType : TypeNames, maxLength : LengthValues,
        precision : PrecisionValues, scale : ScaleValues]
  \cup [fn : {"escapeIdentifier"}, identifier : Identifiers]
  \cup [fn : {"pgTableName"}, first : SourceTables, second : SourceTables]
  \cup [fn : {"columnDefinition"}, col : Columns]
  \cup [fn : {"resetSequences"}, values : SUBSET KeyValues]

InitCalls ==
  /\ pc = "call"
  /\ call \in Calls
  /\ ret = << >>
  /\ mssqlPool = "none" /\ adminClient = "none" /\ pgPool = "none"
  /\ tables = << >> /\ tableMetadata = << >> /\ foreignKeys = << >>
  /\ sortRan = FALSE /\ sortedTables = << >>
  /\ i = 1 /\ j = 1 /\ k = 1
  /\ stats = [tablesProcessed |-> 0, tablesCreated |-> 0,
              foreignKeysCreated |-> 0, totalRowsMigrated |-> 0,
              errors |-> 0, warnings |-> 0]
  /\ createLog = << >> /\ alterLog = << >> /\ fkFailed = 0
  /\ loadLog = << >> /\ loadFailures = 0 /\ resetLog = << >>
  /\ loadResult = "none" /\ columns = [isIdentity |-> FALSE]
  /\ totalRows = 0 /\ offset = 0 /\ totalMigrated = 0
  /\ pages = << >> /\ rows = {} /\ pending = {} /\ committed = {}
  /\ caught = FALSE /\ thrownFrom = "none" /\ summaries = 0 /\ exitCode = -1

\* what a call of one of these functions leaves alone: everything of the run,
\* stats included (type-mapper.js has no access to stats, and its callers
\* count nothing for it)
runVars ==
  << connVars, inputVars, loopVars, stats, logVars, loadVars, caught,
     thrownFrom, summaries, exitCode >>

Returns(value) ==
  /\ pc = "call"
  /\ ret' = value
  /\ pc' = "returned"
  /\ UNCHANGED << call, runVars >>

CallConvertDefaultValue ==
  /\ call.fn = "convertDefaultValue"
  /\ Returns(convertDefaultValue(call.defaultValue, call.dataType))

\* an unknown type is reported with console.warn only
CallMapDataType ==
  /\ call.fn = "mapDataType"
  /\ Returns(mapDataType(call.mssqlType, call.maxLength, call.precision,
                         call.scale))

CallEscapeIdentifier ==
  /\ call.fn = "escapeIdentifier"
  /\ Returns(escapeIdentifier(call.identifier))

\* the target names of two source tables
CallPgTableName ==
  /\ call.fn = "pgTableName"
  /\ Returns(<< pgTableName(call.first.schema_name, call.first.table_name),
                pgTableName(call.second.schema_name, call.second.table_name) >>)

CallColumnDefinition ==
  /\ call.fn = "columnDefinition"
  /\ Returns(columnDefinition(call.col))

\* resetSequences for one identity column whose statements succeed: the
\* state of the sequence after the setval
CallResetSequences ==
  /\ call.fn = "resetSequences"
  /\ Returns(resetQuery(maxQuery(call.values)))

NextCalls ==
  \/ CallConvertDefaultValue \/ CallMapDataType \/ CallEscapeIdentifier
  \/ CallPgTableName \/ CallColumnDefinition \/ CallResetSequences

SpecCalls == InitCalls /\ [][NextCalls]_vars

\* ----------------------------------------------------- graph vocabulary
SourceOf(fk) == [schema_name |-> fk.tableSchema, table_name |-> fk.tableName]
TargetOf(fk) ==
  [schema_name |-> fk.referencedSchema, table_name |-> fk.referencedTable]

\* the foreign keys that are edges between two different listed tables
EdgesOf(tbls, fks) ==
  {<< SourceOf(fks[n]), TargetOf(fks[n]) >> : n \in
     {m \in 1..Len(fks) : /\ SourceOf(fks[m]) \in Range(tbls)
                          /\ TargetOf(fks[m]) \in Range(tbls)
                          /\ SourceOf(fks[m]) # TargetOf(fks[m])}}

\* the tables reachable from the set `from` along edges, in at most n steps
RECURSIVE ReachableIn(_, _, _)
ReachableIn(edges, from, n) ==
  IF n = 0 THEN from
  ELSE ReachableIn(edges,
                   from \cup {e[2] : e \in {d \in edges : d[1] \in from}},
                   n - 1)

Reaches(edges, a, b) == b \in ReachableIn(edges, {a}, Cardinality(edges))

\* the edge a -> b lies on a cycle: a is reachable from b
OnCycle(edges, a, b) == Reaches(edges, b, a)

HasCycle(edges) == \E e \in edges : OnCycle(edges, e[1], e[2])

\* b stands before a in the list
Before(list, b, a) ==
  \E p, q \in 1..Len(list) : p < q /\ list[p] = b /\ list[q] = a

\* ------------------------------------------------------------------ C1
\* C1: for every foreign key A -> B between two different listed tables
\* whose edge lies on no cycle, B stands before A in the list that
\* sortTablesByDependencies returns.
C1_ReferencedBeforeReferencing ==
  sortRan =>
    \A e \in EdgesOf(tables, foreignKeys) :
      ~OnCycle(EdgesOf(tables, foreignKeys), e[1], e[2])
        => Before(sortedTables, e[2], e[1])

\* ------------------------------------------------------------------ C2
\* C2: when the dependency graph has a cycle, the sort returns, every input
\* table appears exactly once in the returned list, and a warning is counted.
C2_CycleEachTableOnce ==
  (sortRan /\ HasCycle(EdgesOf(tables, foreignKeys))) =>
    /\ \A t \in Range(tables) : Cardinality(Positions(sortedTables, t)) = 1
    /\ Len(sortedTables) = Len(tables)
    /\ stats.warnings >= 1

\* ------------------------------------------------------------------ C3
\* the rows of the first n pages the current load fetched
FirstPages(n) == UNION {pages[p] : p \in 1..n}

\* a page is between its fetch and the end of its transaction
PageInFlight == pc \in {"connect", "begin", "insert", "commit", "rollback"}

\* C3: at every point the rows a load has committed are exactly the rows of
\* its first n pages; the rows of the page in flight are not among them; the
\* count the code keeps equals the rows committed; after a failure nothing is
\* pending, the load has returned, and the earlier pages stay committed.
C3_PagesAllOrNothing ==
  /\ \E n \in 0..Len(pages) : committed = FirstPages(n)
  /\ PageInFlight =>
       /\ committed = FirstPages(Len(pages) - 1)
       /\ pending \subseteq pages[Len(pages)]
  /\ Cardinality(committed) = totalMigrated
  /\ loadResult = "failed" => (pending = {} /\ pc = "resetSequences")

\* a load failed on its second page: the first page alone is committed
C3_Witness ==
  /\ loadResult = "failed"
  /\ Len(pages) = 2
  /\ committed = pages[1]
  /\ committed # {}

\* ------------------------------------------------------------------ C4
\* C4 as stated: the resolver has run before any foreign key statement, the
\* foreign key statements follow the resolver's order of their source tables,
\* and the tables are loaded in the resolver's order.
C4_SortOrdersForeignKeysAndLoad ==
  /\ alterLog # << >> => sortRan
  /\ sortRan =>
       \A p, q \in 1..Len(alterLog) :
         p < q => ~Before(sortedTables, SourceOf(alterLog[q]), SourceOf(alterLog[p]))
  /\ loadLog = SubSeq(sortedTables, 1, Len(loadLog))

\* C4 amended: the resolver's order is used for the data load only. The
\* resolver runs after every foreign key of the list has been attempted and
\* before the first load; foreign key statements follow the order of the list
\* of getAllForeignKeys; tables are loaded in the resolver's order.
C4_SortOrdersDataLoadOnly ==
  /\ sortRan => alterLog = foreignKeys
  /\ ~sortRan => loadLog = << >>
  /\ alterLog = SubSeq(foreignKeys, 1, Len(alterLog))
  /\ loadLog = SubSeq(sortedTables, 1, Len(loadLog))

\* two foreign keys were applied in an order that is not the resolver's, and
\* two tables were loaded in the resolver's order, which is not getTables'
C4_Witness ==
  /\ sortRan
  /\ Len(alterLog) = 2
  /\ Before(sortedTables, SourceOf(alterLog[2]), SourceOf(alterLog[1]))
  /\ Len(loadLog) = 2
  /\ loadLog # tables

\* ------------------------------------------------------------------ C5
\* C5: no ALTER TABLE is executed before CREATE TABLE was attempted for every
\* discovered table, and no load starts (no row is inserted) before every
\* foreign key was attempted, whatever failed before.
C5_PhasesStrictlyOrdered ==
  /\ alterLog # << >> => createLog = tables
  /\ (loadLog # << >> \/ pending # {} \/ committed # {}) =>
       /\ createLog = tables
       /\ alterLog = foreignKeys

\* a row is inserted after a CREATE TABLE and an ALTER TABLE have failed
C5_Witness ==
  /\ pending # {}
  /\ stats.tablesCreated < Len(createLog)
  /\ fkFailed >= 1

\* ------------------------------------------------------------------ C6
\* the places whose exception no try block of the table or constraint catches
FatalPoints ==
  {"connectMssql", "connectAdmin", "adminQuery", "connectPg", "getTables",
   "introspect", "getAllForeignKeys", "lookup"}

\* the failures counted one by one
CountedFailures ==
  (Len(createLog) - stats.tablesCreated) + fkFailed + loadFailures

\* C6: a failed CREATE TABLE and a failed migrateTableData each add exactly
\* one to stats.errors, never reach the catch block of migrate(), and leave the
\* loop running: a run that no fatal exception ended has attempted every table
\* in phase 1 and in phase 3, and every run writes the summary.
C6_TableFailuresIsolated ==
  /\ stats.errors = CountedFailures + (IF caught THEN 1 ELSE 0)
  /\ thrownFrom \in FatalPoints \cup {"none"}
  /\ (thrownFrom = "none" /\ (alterLog # << >> \/ sortRan)) => createLog = tables
  /\ (thrownFrom = "none" /\ pc \in {"summary", "finally", "exit", "done"}) =>
       /\ Len(loadLog) = Len(sortedTables)
       /\ Len(resetLog) = Len(sortedTables)
  /\ pc = "done" => summaries >= 1

\* a run ended normally although its first CREATE TABLE and a load failed
C6_Witness ==
  /\ pc = "done"
  /\ thrownFrom = "none"
  /\ Len(tables) = 2
  /\ stats.tablesCreated = 1
  /\ loadFailures = 1
  /\ Len(loadLog) = 2
  /\ stats.errors = 2

\* ------------------------------------------------------------------ C7
\* C7: createForeignKeys attempts every foreign key of the list exactly once
\* and in order, counting each as created or as failed (an error): when the
\* loop has ended, created plus failed equals the length of the list.
C7_EveryForeignKeyAttemptedOnce ==
  /\ Len(alterLog) = j - 1
  /\ alterLog = SubSeq(foreignKeys, 1, j - 1)
  /\ stats.foreignKeysCreated + fkFailed = Len(alterLog)
  /\ pc \in {"createForeignKeys", "sort"} =>
       stats.errors = (Len(createLog) - stats.tablesCreated) + fkFailed
  /\ (pc = "sort" \/ sortRan) =>
       stats.foreignKeysCreated + fkFailed = Len(foreignKeys)

\* the loop ended with one foreign key created and one failed
C7_Witness ==
  /\ pc = "sort"
  /\ Len(foreignKeys) = 2
  /\ fkFailed = 1
  /\ stats.foreignKeysCreated = 1

C9_AllConnectionsClosed ==
  pc = "done" =>
    /\ mssqlPool # "open"
    /\ adminClient # "open"
    /\ pgPool # "open"

IsWrapped(text, key) ==
  \E n \in 0..MaxParens : toLowerCase(text) = Wrap(key, n)

\* C11: for every function-call default of the table, in any letter case and
\* inside zero or more layers of parentheses, convertDefaultValue returns the
\* table's target expression.
C11_FunctionDefaultsTranslated ==
  (pc = "returned" /\ call.fn = "convertDefaultValue") =>
    \A m \in 1..Len(FunctionKeys) :
      IsWrapped(call.defaultValue[1], FunctionKeys[m])
        => ret = Some(FunctionValues[m])

\* ----------------------------------------------------------------- C12
\* C12: for a boolean-typed column (BOOLEAN or bit), convertDefaultValue maps
\* the texts 1 and true, in any case and inside zero or more layers of
\* parentheses, to TRUE, and the texts 0 and false to FALSE.
C12_BooleanDefaultsNormalized ==
  (/\ pc = "returned"
   /\ call.fn = "convertDefaultValue"
   /\ toLowerCase(call.dataType) \in {<< "b", "o", "o", "l", "e", "a", "n" >>, << "b", "i", "t" >>}) =>
    /\ (IsWrapped(call.defaultValue[1], << "1" >>)
          \/ IsWrapped(call.defaultValue[1], << "t", "r", "u", "e" >>)) => ret = Some(<< "T", "R", "U", "E" >>)
    /\ (IsWrapped(call.defaultValue[1], << "0" >>)
          \/ IsWrapped(call.defaultValue[1], << "f", "a", "l", "s", "e" >>)) => ret = Some(<< "F", "A", "L", "S", "E" >>)

\* ----------------------------------------------------------------- C13
\* the type names the rules of mapDataType test for
RuleTypeNames ==
  {<< "v", "a", "r", "c", "h", "a", "r" >>, << "n", "v", "a", "r", "c", "h", "a", "r" >>, << "v", "a", "r", "b", "i", "n", "a", "r", "y" >>, << "d", "e", "c", "i", "m", "a", "l" >>, << "n", "u", "m", "e", "r", "i", "c" >>, << "c", "h", "a", "r" >>, << "n", "c", "h", "a", "r" >>,
   << "b", "i", "n", "a", "r", "y" >>, << "f", "l", "o", "a", "t" >>, << "d", "a", "t", "e", "t", "i", "m", "e", "2" >>, << "t", "i", "m", "e" >>, << "d", "a", "t", "e", "t", "i", "m", "e", "o", "f", "f", "s", "e", "t" >>}

\* the lower-cased, trimmed name matches no rule and no key of the table
IsUnknownType(mssqlType) ==
  /\ trim(toLowerCase(mssqlType)) \notin RuleTypeNames
  /\ \A m \in 1..Len(TypeKeys) : TypeKeys[m] # trim(toLowerCase(mssqlType))

\* the value is a string, and not empty
IsTypeString(value) == value # << >> /\ value[1] # "Object.prototype"

\* C13: mapDataType returns a non-empty type string for every type name and
\* every maxLength, precision and scale; for a name that matches no rule and
\* no key of the table it returns TEXT and stats.warnings has grown by one.
C13_MapDataTypeTotal ==
  (pc = "returned" /\ call.fn = "mapDataType") =>
    /\ IsTypeString(ret)
    /\ IsUnknownType(call.mssqlType) =>
         /\ ret = << "T", "E", "X", "T" >>
         /\ stats.warnings = 1

C15_ComposedIdentifierUnambiguous ==
  (pc = "returned" /\ call.fn = "pgTableName") =>
    (call.first # call.second => ret[1] # ret[2])

ExpectedPages(n) ==
  [p \in 1..((n + BATCH_SIZE - 1) \div BATCH_SIZE) |->
     {r \in 1..n : (p - 1) * BATCH_SIZE < r /\ r <= p * BATCH_SIZE}]

IsSelfReference(fk) == SourceOf(fk) = TargetOf(fk)

IsDangling(fk, tbls) ==
  SourceOf(fk) \notin Range(tbls) \/ TargetOf(fk) \notin Range(tbls)

\* the list without its self-referencing and dangling foreign keys
RECURSIVE WithoutEdgeless(_, _)
WithoutEdgeless(fks, tbls) ==
  IF fks = << >> THEN << >>
  ELSE (IF IsSelfReference(Head(fks)) \/ IsDangling(Head(fks), tbls)
        THEN << >> ELSE << Head(fks) >>)
         \o WithoutEdgeless(Tail(fks), tbls)

\* C18: self-referencing and dangling foreign keys do not influence the sort:
\* its order and its warnings are those of the list without them, and a list
\* of such foreign keys alone gives no warning and the order of the list
\* without any foreign key; each of them is attempted in phase 2 like any
\* other, once, in list order, counted as created or failed.
C18_EdgelessForeignKeysIgnored ==
  /\ sortRan =>
       LET without ==
             sortTablesByDependencies(tables, WithoutEdgeless(foreignKeys, tables))
       IN /\ sortedTables = without.tables
          /\ stats.warnings = without.warnings
          /\ WithoutEdgeless(foreignKeys, tables) = << >> =>
               /\ stats.warnings = 0
               /\ sortedTables = sortTablesByDependencies(tables, << >>).tables
               /\ Len(sortedTables) = Len(tables)
  /\ alterLog = SubSeq(foreignKeys, 1, j - 1)
  /\ stats.foreignKeysCreated + fkFailed = Len(alterLog)
  /\ (pc = "sort" \/ sortRan) => alterLog = foreignKeys

\* the sort has run after a self-referencing and a dangling foreign key were
\* both attempted in phase 2, without a warning
C18_Witness ==
  /\ sortRan
  /\ Len(foreignKeys) = 2
  /\ IsSelfReference(foreignKeys[1])
  /\ ~IsSelfReference(foreignKeys[2]) /\ IsDangling(foreignKeys[2], tables)
  /\ alterLog = foreignKeys
  /\ stats.foreignKeysCreated = 1 /\ fkFailed = 1
  /\ Len(tables) = 2
  /\ stats.warnings = 0

\* ----------------------------------------------------------------- C19
\* C19: in the column definition built by createTable an identity column
\* gets BIGSERIAL, SMALLSERIAL or SERIAL as its mapped type is BIGINT,
\* SMALLINT or anything else, and neither NOT NULL nor DEFAULT; a column that
\* is no identity keeps its mapped type, gets NOT NULL exactly when it is not
\* nullable and DEFAULT (with the translated text) exactly when the
\* translation of its default is not null.
C19_ColumnDefinitionClauses ==
  (pc = "returned" /\ call.fn = "columnDefinition") =>
    LET col == call.col
        mapped == mapDataType(col.dataType, col.maxLength, col.precision,
                              col.scale)
        translated == convertDefaultValue(col.defaultValue, mapped)
        head == escapeIdentifier(col.name) \o << " " >>
    IN /\ col.isIdentity =>
            /\ mapped = << "B", "I", "G", "I", "N", "T" >> => ret.finalType = << "B", "I", "G", "S", "E", "R", "I", "A", "L" >>
            /\ mapped = << "S", "M", "A", "L", "L", "I", "N", "T" >> => ret.finalType = << "S", "M", "A", "L", "L", "S", "E", "R", "I", "A", "L" >>
            /\ mapped \notin {<< "B", "I", "G", "I", "N", "T" >>, << "S", "M", "A", "L", "L", "I", "N", "T" >>} => ret.finalType = << "S", "E", "R", "I", "A", "L" >>
            /\ col.dataType = << "b", "i", "g", "i", "n", "t" >> => ret.colDef = << "\"", "I", "d", "\"", " ", "B", "I", "G", "S", "E", "R", "I", "A", "L" >>
            /\ col.dataType \in {<< "s", "m", "a", "l", "l", "i", "n", "t" >>, << "t", "i", "n", "y", "i", "n", "t" >>} =>
                 ret.colDef = << "\"", "I", "d", "\"", " ", "S", "M", "A", "L", "L", "S", "E", "R", "I", "A", "L" >>
            /\ col.dataType \in {<< "i", "n", "t" >>, << "d", "e", "c", "i", "m", "a", "l" >>} => ret.colDef = << "\"", "I", "d", "\"", " ", "S", "E", "R", "I", "A", "L" >>
            /\ ret.nullClause = << >>
            /\ ret.defaultClause = << >>
            /\ ret.colDef = head \o ret.finalType
       /\ ~col.isIdentity =>
            /\ ret.finalType = mapped
            /\ ret.nullClause = (IF col.isNullable THEN << >> ELSE << " ", "N", "O", "T", " ", "N", "U", "L", "L" >>)
            /\ (ret.defaultClause # << >>) <=> (translated # Null)
            /\ translated # Null =>
                 ret.defaultClause = << " ", "D", "E", "F", "A", "U", "L", "T", " " >> \o translated[1]
            /\ ret.colDef = head \o mapped \o ret.nullClause \o ret.defaultClause

\* a bigint identity column that is not nullable and has a default
C19_Witness ==
  /\ pc = "returned"
  /\ call.fn = "columnDefinition"
  /\ call.col.isIdentity
  /\ ~call.col.isNullable
  /\ call.col.defaultValue = Some(<< "(", "(", "1", ")", ")" >>)
  /\ call.col.dataType = << "b", "i", "g", "i", "n", "t" >>
  /\ ret.colDef = << "\"", "I", "d", "\"", " ", "B", "I", "G", "S", "E", "R", "I", "A", "L" >>

\* ----------------------------------------------------------------- C20
\* the text between the outer quotes
Inner(str) == SubSeq(str, 2, Len(str) - 1)

\* every doubled quote becomes one quote again
RECURSIVE Undouble(_)
Undouble(str) ==
  IF str = << >> THEN << >>
  ELSE IF Len(str) >= 2 /\ str[1] = "\"" /\ str[2] = "\""
  THEN << "\"" >> \o Undouble(SubSeq(str, 3, Len(str)))
  ELSE << Head(str) >> \o Undouble(Tail(str))

CountQuotes(str) == Cardinality({n \in 1..Len(str) : str[n] = "\""})

\* C20: escapeIdentifier wraps the identifier in double quotes and doubles
\* every embedded quote: stripping the outer quotes and un-doubling returns
\* the identifier, no other identifier has the same result, and escaping the
\* result again doubles every quote of it.
C20_EscapeIdentifierRoundTrip ==
  (pc = "returned" /\ call.fn = "escapeIdentifier") =>
    /\ Len(ret) >= 2 /\ ret[1] = "\"" /\ ret[Len(ret)] = "\""
    /\ Len(ret) = Len(call.identifier) + CountQuotes(call.identifier) + 2
    /\ CountQuotes(ret) = 2 * CountQuotes(call.identifier) + 2
    /\ Undouble(Inner(ret)) = call.identifier
    /\ \A other \in Identifiers :
         escapeIdentifier(other) = ret => other = call.identifier
    /\ CountQuotes(Inner(escapeIdentifier(ret))) = 2 * CountQuotes(ret)
    /\ Undouble(Inner(escapeIdentifier(ret))) = ret

\* an identifier that holds a quote was escaped
C20_Witness ==
  /\ pc = "returned"
  /\ call.fn = "escapeIdentifier"
  /\ call.identifier = << "a", "\"" >>
  /\ ret = << "\"", "a", "\"", "\"", "\"" >>

\* ----------------------------------------------------------------- C21
\* C21: the tables returned by sortTablesByDependencies are the input tables,
\* each once, also when a name contains a '.'; so the lookup of phase 3 finds
\* the metadata stored in phase 1 for every returned table and never throws.
C21_SortKeepsIdentities ==
  /\ sortRan =>
       /\ Len(sortedTables) = Len(tables)
       /\ Range(sortedTables) = Range(tables)
       /\ \A n \in 1..Len(sortedTables) :
            TableKey(sortedTables[n].schema_name, sortedTables[n].table_name)
              \in DOMAIN tableMetadata
  /\ thrownFrom # "lookup"

\* ----------------------------------------------------------------- C22
\* C22: stats.totalRowsMigrated counts exactly the rows committed to the
\* target: it grows by the rows a load has committed when that load returns,
\* whether it returns true or false, and changes at no other step.
C22_RowsMigratedEqualsCommitted ==
  [][IF loadResult = "running" /\ loadResult' \in {"ok", "failed"}
     THEN stats'.totalRowsMigrated =
            stats.totalRowsMigrated + Cardinality(committed')
     ELSE stats'.totalRowsMigrated = stats.totalRowsMigrated]_vars

\* ----------------------------------------------------------------- C23
\* C23: for nchar and nvarchar with a maxLength of at least 1, mapDataType
\* returns CHAR(n) or VARCHAR(n) with n >= 1.
C23_HalvedLengthPositive ==
  (/\ pc = "returned"
   /\ call.fn = "mapDataType"
   /\ trim(toLowerCase(call.mssqlType)) \in {<< "n", "c", "h", "a", "r" >>, << "n", "v", "a", "r", "c", "h", "a", "r" >>}
   /\ call.maxLength # Null
   /\ call.maxLength[1] >= 1) =>
    \E n \in 1..call.maxLength[1] :
      ret = (IF trim(toLowerCase(call.mssqlType)) = << "n", "c", "h", "a", "r" >>
             THEN << "C", "H", "A", "R", "(" >> ELSE << "V", "A", "R", "C", "H", "A", "R", "(" >>)
              \o NumberToString(n) \o << ")" >>

\* ----------------------------------------------------------------- C24
\* C24: when phase 3 has ended, migrateTableData and then resetSequences were
\* invoked once for every table of the resolver output, in its order, whether
\* CREATE TABLE succeeded for the table or not.
C24_EveryTableLoadedAndReset ==
  /\ (sortRan /\ pc \in {"summary", "catch", "finally", "exit", "done"}) =>
       /\ loadLog = sortedTables
       /\ resetLog = sortedTables
  /\ Len(resetLog) <= Len(loadLog) /\ Len(loadLog) <= Len(resetLog) + 1
  /\ resetLog = SubSeq(loadLog, 1, Len(resetLog))

====
